---- MODULE Spec2Model ----
(***************************************************************************)
(* ColorSense: the request pipeline of src/lib/googleai.ts behind the POST *)
(* boundary of src/app/api/color/route.ts.                                 *)
(*                                                                         *)
(* One behaviour is one HTTP request: the boundary dispatches on the body, *)
(* the resolver tasks issue calls to the generation service, the service   *)
(* settles each call (any reply, in any order) and the boundary answers.   *)
(*                                                                         *)
(* Texts are sequences of tokens.  "{", "}", "[", "]" and "," are the JSON *)
(* punctuation the code scans for, "w" is a run of prose, a body token     *)
(* (C_red, E_exact, ...) stands for the key/value pairs of one object, "5" *)
(* and "null" are JSON scalars.                                            *)
(*                                                                         *)
(* Two further specifications study one function each on its own inputs:   *)
(* SpecText the tail of getColorFromText on one reply text, SpecParse the  *)
(* input parser of the page (src/app/page.tsx) on one text of the form,    *)
(* where a string is the sequence of its characters.  SpecBatchFair is the *)
(* batch request with every call settling, and SpecPage (SpecPageFair) the *)
(* page: its forms and submit handlers, each fetch running one request.    *)
(***************************************************************************)
EXTENDS Integers, Sequences, FiniteSets, TLC

\* Longest colorDescriptions array a request carries.
MaxItems == 6

\* Longest run of tokens before and after the JSON of a reply text.
MaxAffix == 2

\* Most lines typed into the describe form.
MaxLines == 3

\* googleai.ts: const batchSize = 5
batchSize == 5

\* A JavaScript undefined / absent property.
U == "undefined"

\* error: null of a ColorResult; a message is a non-empty sequence of text pieces.
Null == << >>

Phrases == <<"red", "navy", "teal">>

(***************************************************************************)
(* String primitives of JavaScript, on token sequences (0-based indexes).  *)
(***************************************************************************)
includes(t, c) == \E k \in 1..Len(t) : t[k] = c

indexOf(t, c) ==
  IF includes(t, c)
  THEN (CHOOSE k \in 1..Len(t) : t[k] = c /\ \A j \in 1..(k-1) : t[j] # c) - 1
  ELSE -1

lastIndexOf(t, c) ==
  IF includes(t, c)
  THEN (CHOOSE k \in 1..Len(t) : t[k] = c /\ \A j \in (k+1)..Len(t) : t[j] # c) - 1
  ELSE -1

\* String.prototype.substring swaps its arguments when start > end.
substring(t, start, end) ==
  LET lo == IF start <= end THEN start ELSE end
      hi == IF start <= end THEN end ELSE start
  IN SubSeq(t, lo + 1, hi)

\* The raw text parsed whether or not it has brackets.
ExtractJsonNoSlice(responseText, open, close) == responseText

\* The slice from the first opening to the last closing bracket, else the raw text.
ExtractJson(responseText, open, close) ==
  IF includes(responseText, open) /\ includes(responseText, close)
  THEN LET jsonStart == indexOf(responseText, open)
           jsonEnd   == lastIndexOf(responseText, close) + 1
       IN substring(responseText, jsonStart, jsonEnd)
  ELSE responseText

(***************************************************************************)
(* JSON.parse on token sequences.                                          *)
(***************************************************************************)
NoFields ==
  [colorName |-> U, hexCode |-> U, description |-> U, category |-> U,
   error |-> U, valid |-> U, reason |-> U]

BodyTokens ==
  {"C_red", "C_navy", "C_teal", "K_sand", "E_exact", "E_other", "V_true", "V_false"}

Body(b) ==
  CASE b = "C_red"   -> [NoFields EXCEPT !.colorName = "Red", !.hexCode = "#FF0000",
                                         !.description = "pure red"]
    [] b = "C_navy"  -> [NoFields EXCEPT !.colorName = "Navy", !.hexCode = "#000080",
                                         !.description = "dark blue"]
    [] b = "C_teal"  -> [NoFields EXCEPT !.colorName = "Teal", !.hexCode = "#008080",
                                         !.description = "blue green"]
    [] b = "K_sand"  -> [NoFields EXCEPT !.colorName = "Sand", !.hexCode = "#C2B280",
                                         !.description = "pale beige",
                                         !.category = "Wall Colors"]
    [] b = "E_exact" -> [NoFields EXCEPT !.error = "Not a valid color description"]
    [] b = "E_other" -> [NoFields EXCEPT !.error = "Unknown color"]
    [] b = "V_true"  -> [NoFields EXCEPT !.valid = "true", !.reason = "names a color"]
    [] b = "V_false" -> [NoFields EXCEPT !.valid = "false", !.reason = "not about colors"]
    [] OTHER         -> NoFields

IsObjectText(t) ==
  \/ t = <<"{", "}">>
  \/ Len(t) = 3 /\ t[1] = "{" /\ t[3] = "}" /\ t[2] \in BodyTokens

ObjectOf(t) == IF Len(t) = 3 THEN Body(t[2]) ELSE NoFields

\* obj ("," obj)*
IsElementsText(s) ==
  /\ Len(s) % 4 = 3
  /\ \A k \in 0..(Len(s) \div 4) :
       /\ IsObjectText(SubSeq(s, 4*k + 1, 4*k + 3))
       /\ (4*k + 4 <= Len(s) => s[4*k + 4] = ",")

IsArrayText(t) ==
  /\ Len(t) >= 2 /\ t[1] = "[" /\ t[Len(t)] = "]"
  /\ (Len(t) = 2 \/ IsElementsText(SubSeq(t, 2, Len(t) - 1)))

ElementsOf(t) ==
  [k \in 1..((Len(t) - 1) \div 4) |-> ObjectOf(SubSeq(t, 4*k - 2, 4*k))]

\* ok = FALSE is a SyntaxError.
JSONparse(t) ==
  CASE IsObjectText(t) -> [ok |-> TRUE, kind |-> "object", obj |-> ObjectOf(t), elems |-> << >>]
    [] IsArrayText(t)  -> [ok |-> TRUE, kind |-> "array", obj |-> NoFields, elems |-> ElementsOf(t)]
    [] t = <<"5">>     -> [ok |-> TRUE, kind |-> "number", obj |-> NoFields, elems |-> << >>]
    [] t = <<"null">>  -> [ok |-> TRUE, kind |-> "null", obj |-> NoFields, elems |-> << >>]
    [] OTHER           -> [ok |-> FALSE, kind |-> "none", obj |-> NoFields, elems |-> << >>]

\* Reading a property of null is a TypeError; of any other non-object it is undefined.
PropThrows(v) == v.kind = "null"

Truthy(x) == x \notin {U, "", "false"}

(***************************************************************************)
(* Errors.  A thrown value is an outcome with ok = FALSE; isError says     *)
(* whether it is an instance of Error.                                     *)
(***************************************************************************)
ConfigError   == <<"Google AI API key not found in environment variables">>
EmptyResponse == <<"Empty response from AI">>
InvalidFormat == <<"Invalid response format from AI">>
NotAColor     == <<"Not a valid color description">>
UnknownError  == <<"Unknown error">>
PostFallback  == <<"Failed to process color request">>
FallbackReason == "Error processing validation"

RejectionPrefix == "This doesn't seem to be about colors: "

\* The rejection reported without the validator's reason, as a format error.
ColorRejectionAnonymous(reason) == InvalidFormat

ColorRejection(reason) ==
  <<RejectionPrefix, reason,
    ". Please describe a color like \"forest green\" or \"warm sunset orange\".">>

SuggestionRejection(reason) ==
  <<RejectionPrefix, reason,
    ". Try asking for color suggestions for a specific purpose like \"colors for a beach-themed bedroom\" or \"professional outfit colors\".">>

\* The message of the SyntaxError of JSON.parse quotes the text it was given.
SyntaxErrorMessage(jsonText) == <<"Unexpected token in JSON">> \o jsonText

TypeErrorMessage == <<"Cannot read properties of null">>

NoValue == JSONparse(<< >>)

Thrown(message) ==
  [ok |-> FALSE, isError |-> TRUE, message |-> message, value |-> NoValue, list |-> << >>]

ThrownNonError ==
  [ok |-> FALSE, isError |-> FALSE, message |-> Null, value |-> NoValue, list |-> << >>]

Returned(v) ==
  [ok |-> TRUE, isError |-> FALSE, message |-> Null, value |-> v, list |-> << >>]

ReturnedList(l) ==
  [ok |-> TRUE, isError |-> FALSE, message |-> Null, value |-> NoValue, list |-> l]

(***************************************************************************)
(* Replies of the generation service to one generateContent call.          *)
(***************************************************************************)
TextReply(t) == [kind |-> "text", text |-> t, message |-> Null]

ThrowReply == [kind |-> "throwError", text |-> << >>, message |-> <<"fetch failed">>]

ThrowNonErrorReply == [kind |-> "throwOther", text |-> << >>, message |-> Null]

(***************************************************************************)
(* validateColorQuery                                                      *)
(***************************************************************************)
FallbackVerdict == [valid |-> "false", reason |-> FallbackReason]

validateColorQuery(reply) ==
  IF reply.kind # "text"
  THEN FallbackVerdict
  ELSE LET responseText == reply.text
           jsonText     == ExtractJson(responseText, "{", "}")
           result       == JSONparse(jsonText)
       IN IF ~result.ok \/ PropThrows(result)
          THEN FallbackVerdict
          ELSE [valid |-> result.obj.valid, reason |-> result.obj.reason]

(***************************************************************************)
(* getColorFromText, after the generation call has settled.                *)
(***************************************************************************)
\* The body of the inner try.
ParseColorResponse(responseText) ==
  LET jsonText       == ExtractJson(responseText, "{", "}")
      parsedResponse == JSONparse(jsonText)
  IN IF ~parsedResponse.ok THEN Thrown(SyntaxErrorMessage(jsonText))
     ELSE IF PropThrows(parsedResponse) THEN Thrown(TypeErrorMessage)
     ELSE IF Truthy(parsedResponse.obj.error) THEN Thrown(<<parsedResponse.obj.error>>)
     ELSE Returned(parsedResponse)

\* The inner catch.
CatchColorParse(o) ==
  IF o.ok THEN o
  ELSE IF o.isError /\ o.message = NotAColor THEN o
  ELSE Thrown(InvalidFormat)

ColorOutcome(reply) ==
  CASE reply.kind = "throwError" -> Thrown(reply.message)
    [] reply.kind = "throwOther" -> ThrownNonError
    [] OTHER ->
         LET responseText == reply.text
         IN IF responseText = << >>
            THEN Thrown(EmptyResponse)
            ELSE CatchColorParse(ParseColorResponse(responseText))

(***************************************************************************)
(* getColorSuggestions, after the generation call has settled.             *)
(***************************************************************************)
SuggestionResult(suggestion) ==
  [originalInput |-> suggestion.colorName,
   colorName     |-> suggestion.colorName,
   hexCode       |-> suggestion.hexCode,
   description   |-> suggestion.description,
   category      |-> IF Truthy(suggestion.category) THEN suggestion.category
                     ELSE "Suggested Colors",
   error         |-> Null]

ParseSuggestions(responseText) ==
  LET jsonText         == ExtractJson(responseText, "[", "]")
      colorSuggestions == JSONparse(jsonText)
  IN IF ~colorSuggestions.ok THEN Thrown(SyntaxErrorMessage(jsonText))
     ELSE IF colorSuggestions.kind # "array" THEN Thrown(TypeErrorMessage)
     ELSE ReturnedList([k \in 1..Len(colorSuggestions.elems) |->
                          SuggestionResult(colorSuggestions.elems[k])])

CatchSuggestionParse(o) == IF o.ok THEN o ELSE Thrown(InvalidFormat)

SuggestionOutcome(reply) ==
  CASE reply.kind = "throwError" -> Thrown(reply.message)
    [] reply.kind = "throwOther" -> ThrownNonError
    [] OTHER ->
         LET responseText == reply.text
         IN IF responseText = << >>
            THEN Thrown(EmptyResponse)
            ELSE CatchSuggestionParse(ParseSuggestions(responseText))

(***************************************************************************)
(* The per-item wrapper of getMultipleColorsFromText (batch.map callback). *)
(***************************************************************************)
SuccessResult(description, result) ==
  [originalInput |-> description,
   colorName     |-> result.obj.colorName,
   hexCode       |-> result.obj.hexCode,
   description   |-> result.obj.description,
   category      |-> result.obj.category,
   error         |-> Null]

\* The failure result with absent instead of empty colour fields.
ErrorResultNoPlaceholders(description, o) ==
  [originalInput |-> description,
   colorName     |-> U,
   hexCode       |-> U,
   description   |-> U,
   category      |-> U,
   error         |-> IF o.isError THEN o.message ELSE UnknownError]

ErrorResult(description, o) ==
  [originalInput |-> description,
   colorName     |-> "",
   hexCode       |-> "",
   description   |-> "",
   category      |-> U,
   error         |-> IF o.isError THEN o.message ELSE UnknownError]

Fulfilled(v) == [status |-> "fulfilled", value |-> v]

Rejected(o) == [status |-> "rejected", value |-> ErrorResult(U, o)]

Pending == [status |-> "pending", value |-> ErrorResult(U, ThrownNonError)]

\* The wrapper without its catch.
WrapItemUncaught(description, o) ==
  IF o.ok THEN Fulfilled(SuccessResult(description, o.value))
  ELSE Rejected(o)

WrapItem(description, o) ==
  IF o.ok THEN Fulfilled(SuccessResult(description, o.value))
  ELSE Fulfilled(ErrorResult(description, o))

\* Promise.race in place of Promise.all.
PromiseRace(promises) ==
  IF \E k \in DOMAIN promises : promises[k].status = "fulfilled" THEN "fulfilled"
  ELSE "pending"

\* Promise.all: rejected as soon as one promise rejects, fulfilled when all are.
PromiseAll(promises) ==
  IF \E k \in DOMAIN promises : promises[k].status = "rejected" THEN "rejected"
  ELSE IF \A k \in DOMAIN promises : promises[k].status = "fulfilled" THEN "fulfilled"
  ELSE "pending"

(***************************************************************************)
(* The replies the service is taken to give.  Each reply carries a label   *)
(* naming its class; the label is a description of the input and is never  *)
(* read by the operators that model the code.                              *)
(***************************************************************************)
Labelled(label, reply) == [label |-> label, reply |-> reply]

ColourToken(phrase) ==
  CASE phrase = "red"  -> "C_red"
    [] phrase = "navy" -> "C_navy"
    [] OTHER           -> "C_teal"

ProseText == <<"w", "w">>

AllValidationReplies ==
  { Labelled("thrown", ThrowReply),
    Labelled("thrown", ThrowNonErrorReply),
    Labelled("empty", TextReply(<< >>)),
    Labelled("unparseable", TextReply(ProseText)),
    Labelled("unparseable", TextReply(<<"{", "w">>)),
    Labelled("nonObject", TextReply(<<"5">>)),
    Labelled("nonObject", TextReply(<<"null">>)),
    Labelled("nonObject", TextReply(<<"[", "]">>)),
    Labelled("wrongShape", TextReply(<<"{", "}">>)),
    Labelled("wrongShape", TextReply(<<"{", "C_red", "}">>)),
    Labelled("verdictInvalid", TextReply(<<"{", "V_false", "}">>)),
    Labelled("verdictInvalid", TextReply(<<"w", "{", "V_false", "}">>)),
    Labelled("verdictValid", TextReply(<<"{", "V_true", "}">>)),
    Labelled("verdictValid", TextReply(<<"w", "{", "V_true", "}", "w">>)) }

AllColorReplies(phrase) ==
  { Labelled("thrown", ThrowReply),
    Labelled("thrown", ThrowNonErrorReply),
    Labelled("empty", TextReply(<< >>)),
    Labelled("unparseable", TextReply(ProseText)),
    Labelled("unparseable", TextReply(<<"}", "w", "{">>)),
    Labelled("unparseable",
             TextReply(<<"{", ColourToken(phrase), "}", "w", "{", ColourToken(phrase), "}">>)),
    Labelled("nonObject", TextReply(<<"5">>)),
    Labelled("nonObject", TextReply(<<"null">>)),
    Labelled("wrongShape", TextReply(<<"{", "V_true", "}">>)),
    Labelled("inBandError", TextReply(<<"{", "E_exact", "}">>)),
    Labelled("inBandError", TextReply(<<"{", "E_other", "}">>)),
    Labelled("inBandError", TextReply(<<"w", "{", "E_other", "}", "w">>)),
    Labelled("colour", TextReply(<<"{", ColourToken(phrase), "}">>)),
    Labelled("colour", TextReply(<<"w", "{", ColourToken(phrase), "}", "w">>)) }

AllSuggestionReplies ==
  { Labelled("thrown", ThrowReply),
    Labelled("empty", TextReply(<< >>)),
    Labelled("unparseable", TextReply(ProseText)),
    Labelled("unparseable", TextReply(<<"[", "w", "]">>)),
    Labelled("nonObject", TextReply(<<"null">>)),
    Labelled("wrongShape", TextReply(<<"{", "K_sand", "}">>)),
    Labelled("palette", TextReply(<<"[", "{", "K_sand", "}", "]">>)),
    Labelled("palette",
             TextReply(<<"w", "[", "{", "K_sand", "}", ",", "{", "C_teal", "}", "]", "w">>)) }

\* In a batch every class of failure of an item occurs beside the success.
BatchValidationReplies ==
  { Labelled("verdictInvalid", TextReply(<<"{", "V_false", "}">>)),
    Labelled("verdictValid", TextReply(<<"{", "V_true", "}">>)) }

BatchColorReplies(phrase) ==
  { Labelled("thrown", ThrowReply),
    Labelled("empty", TextReply(<< >>)),
    Labelled("unparseable", TextReply(ProseText)),
    Labelled("inBandError", TextReply(<<"{", "E_other", "}">>)),
    Labelled("colour", TextReply(<<"w", "{", ColourToken(phrase), "}", "w">>)) }

(***************************************************************************)
(* Request bodies.                                                         *)
(***************************************************************************)
DescriptionList(n) == [k \in 1..n |-> Phrases[((k - 1) % Len(Phrases)) + 1]]

RequestBody(cd, hasList, list, sq) ==
  [colorDescription |-> cd, hasList |-> hasList, colorDescriptions |-> list,
   suggestionQuery |-> sq]

Bodies ==
  { RequestBody(U, FALSE, << >>, U),
    RequestBody("", FALSE, << >>, ""),
    RequestBody("red", FALSE, << >>, U),
    RequestBody(U, FALSE, << >>, "beach bedroom"),
    RequestBody("navy", FALSE, << >>, "beach bedroom"),
    RequestBody("teal", TRUE, << >>, U),
    RequestBody("teal", TRUE, DescriptionList(2), U),
    RequestBody(U, TRUE, DescriptionList(1), "beach bedroom"),
    RequestBody(U, TRUE, << >>, "beach bedroom") }
  \cup { RequestBody(U, TRUE, DescriptionList(n), U) : n \in 0..MaxItems }

(***************************************************************************)
(* The input parser of the page (parseStructuredColorInput and             *)
(* parseMultipleColors).  Here a string is the sequence of its characters; *)
(* "bullet" stands for the character U+2022.                               *)
(***************************************************************************)
\* \s of the regular expressions, and what trim() removes.
Whitespace == {" ", "\n"}

BulletMarkers == {"bullet", "*", "-"}

\* How many characters of s from position p on lie in set.
Run(s, p, set) ==
  LET ends == {q \in p..(Len(s) + 1) : \A j \in p..(q - 1) : s[j] \in set}
  IN (CHOOSE q \in ends : \A r \in ends : r <= q) - p

StartsAt(s, p, word) ==
  /\ p + Len(word) - 1 <= Len(s)
  /\ SubSeq(s, p, p + Len(word) - 1) = word

\* The length of the match of a separator at position p of s, 0 when it does
\* not match there.  The quantifiers are greedy.
MatchLen(separator, s, p) ==
  CASE separator = "/\\n+/"      -> Run(s, p, {"\n"})
    [] separator = "/,|and/"     ->
         IF s[p] = "," THEN 1
         ELSE IF StartsAt(s, p, <<"a", "n", "d">>) THEN 3
         ELSE 0
    [] separator = "/[*-]\\s*/"  ->
         IF s[p] \in BulletMarkers THEN 1 + Run(s, p + 1, Whitespace) ELSE 0
    [] separator = "/,\\s*/"     ->
         IF s[p] = "," THEN 1 + Run(s, p + 1, Whitespace) ELSE 0
    [] separator = ":"           -> IF s[p] = ":" THEN 1 ELSE 0
    [] OTHER                     -> 0

\* String.prototype.split: start is where the current piece began, p the
\* position the separator is tried at.
RECURSIVE SplitFrom(_, _, _, _)
SplitFrom(s, separator, start, p) ==
  IF p > Len(s) THEN <<SubSeq(s, start, Len(s))>>
  ELSE LET matched == MatchLen(separator, s, p)
       IN IF matched > 0
          THEN <<SubSeq(s, start, p - 1)>>
                 \o SplitFrom(s, separator, p + matched, p + matched)
          ELSE SplitFrom(s, separator, start, p + 1)

split(s, separator) == SplitFrom(s, separator, 1, 1)

trim(s) ==
  LET kept == {k \in 1..Len(s) : s[k] \notin Whitespace}
  IN IF kept = {} THEN << >>
     ELSE SubSeq(s, CHOOSE k \in kept : \A j \in kept : k <= j,
                    CHOOSE k \in kept : \A j \in kept : j <= k)

RECURSIVE join(_, _)
join(pieces, glue) ==
  IF pieces = << >> THEN << >>
  ELSE IF Len(pieces) = 1 THEN pieces[1]
  ELSE pieces[1] \o glue \o join(Tail(pieces), glue)

\* .filter((line) => line.trim() !== "")
NotBlank(line) == trim(line) # << >>

\* The pieces trimmed and none dropped.
TrimmedPiecesUnfiltered(pieces) == [k \in 1..Len(pieces) |-> trim(pieces[k])]

\* .map((s) => s.trim()).filter((s) => s !== "")
TrimmedPieces(pieces) ==
  SelectSeq([k \in 1..Len(pieces) |-> trim(pieces[k])], NotBlank)

\* The bullet strategy left out.
parseMultipleColorsNoBullets(input) ==
  LET byLines == SelectSeq(split(input, "/\\n+/"), NotBlank)
      colors  == IF Len(byLines) <= 1
                 THEN SelectSeq(split(input, "/,\\s*/"), NotBlank)
                 ELSE byLines
  IN IF Len(colors) >= 1 THEN colors ELSE <<input>>

parseMultipleColors(input) ==
  LET byLines   == SelectSeq(split(input, "/\\n+/"), NotBlank)
      byBullets == IF Len(byLines) <= 1
                   THEN SelectSeq(split(input, "/[*-]\\s*/"), NotBlank)
                   ELSE byLines
      colors    == IF Len(byBullets) <= 1
                   THEN SelectSeq(split(input, "/,\\s*/"), NotBlank)
                   ELSE byBullets
  IN IF Len(colors) >= 1 THEN colors ELSE <<input>>

\* category: undefined of a ParsedColor.
NoCategory == <<U>>

ParsedColor(color, category) == [color |-> color, category |-> category]

\* colors.forEach((color) => results.push({ color, category: currentCategory }))
Tagged(colors, category) ==
  [k \in 1..Len(colors) |-> ParsedColor(colors[k], category)]

\* The body of the loop over the lines, from the line at hand to the last.
RECURSIVE ProcessLines(_, _)
ProcessLines(lines, currentCategory) ==
  IF lines = << >> THEN << >>
  ELSE LET trimmedLine == trim(Head(lines))
       IN IF includes(trimmedLine, ":")
          THEN LET parts    == split(trimmedLine, ":")
                   category == trim(parts[1])
                   colorsInThisLine ==
                     TrimmedPieces(split(join(Tail(parts), <<":">>), "/,|and/"))
               IN Tagged(colorsInThisLine, category)
                    \o ProcessLines(Tail(lines), category)
          ELSE LET colors == TrimmedPieces(split(trimmedLine, "/,|and/"))
               IN Tagged(colors, currentCategory)
                    \o ProcessLines(Tail(lines), currentCategory)

\* The line loop run on single-line input too.
parseStructuredColorInputNoShortcut(input) ==
  LET lines   == SelectSeq(split(input, "/\\n+/"), NotBlank)
      results == ProcessLines(lines, NoCategory)
  IN IF Len(results) = 0
     THEN Tagged(parseMultipleColors(input), NoCategory)
     ELSE results

parseStructuredColorInput(input) ==
  LET lines == SelectSeq(split(input, "/\\n+/"), NotBlank)
  IN IF Len(lines) <= 1
     THEN Tagged(parseMultipleColors(input), NoCategory)
     ELSE LET results == ProcessLines(lines, NoCategory)
          IN IF Len(results) = 0
             THEN Tagged(parseMultipleColors(input), NoCategory)
             ELSE results

(***************************************************************************)
(* State.                                                                  *)
(***************************************************************************)
VARIABLES
  apiKey,     \* process.env.GOOGLE_AI_API_KEY is set
  body,       \* the parsed request body
  pc,         \* where POST stands: start, await (a resolver), pause, done
  handler,    \* the branch POST took: none, suggest, batch, single
  tasks,      \* the resolver invocations of this request, by item index
  promises,   \* batchPromises of getMultipleColorsFromText, by item index
  i,          \* loop variable of getMultipleColorsFromText
  results,    \* results of getMultipleColorsFromText
  calls,      \* generateContent calls issued so far, by purpose
  pauses,     \* inter-batch timeouts started so far
  response,   \* the NextResponse returned by POST
  colorInput,   \* page: the text of the describe form
  parsedColors, \* page: parseStructuredColorInput(colorInput)
  mode,            \* page: the form shown, describe or suggest
  suggestionQuery, \* page: the text of the suggest form
  isLoading,       \* page: a submission is in progress
  error,           \* page: the error message shown, "" when none
  singleResult,    \* page: null or the colour shown
  multiResults,    \* page: null or the list of results shown
  responseText, \* a generation reply text put to getColorFromText on its own
  jsonText,     \* the slice of responseText handed to JSON.parse
  colorInfo,    \* what getColorFromText makes of responseText
  step          \* position of the page / of the function under study

requestVars ==
  <<apiKey, body, pc, handler, tasks, promises, i, results, calls, pauses, response>>

formVars == <<mode, suggestionQuery, isLoading, error, singleResult, multiResults>>

pageVars == <<colorInput, parsedColors, formVars>>

textVars == <<responseText, jsonText, colorInfo>>

vars == <<requestVars, pageVars, textVars, step>>

NoResponse ==
  [status |-> 0, kind |-> "none", color |-> NoValue, results |-> << >>, error |-> Null]

JsonColor(v) ==
  [status |-> 200, kind |-> "color", color |-> v, results |-> << >>, error |-> Null]

JsonResults(rs) ==
  [status |-> 200, kind |-> "results", color |-> NoValue, results |-> rs, error |-> Null]

JsonError(status, message) ==
  [status |-> status, kind |-> "error", color |-> NoValue, results |-> << >>,
   error |-> message]

\* The catch of POST.
PostCatch(o) == JsonError(500, IF o.isError THEN o.message ELSE PostFallback)

NoOutcome == ThrownNonError

Task(p, o, val, gen) == [pc |-> p, out |-> o, val |-> val, gen |-> gen]

\* The key check left out.
KeyCheckSkipped == TRUE

\* if (!apiKey) throw ...: the check passes when the credential is set.
KeyCheckPasses == apiKey

\* The synchronous head of getColorFromText / getColorSuggestions.
StartedTask ==
  IF KeyCheckPasses THEN Task("validating", NoOutcome, "none", "none")
  ELSE Task("settled", Thrown(ConfigError), "none", "none")

\* The generation call issued together with the validation call.
IssuedOnStartBoth(n) ==
  IF KeyCheckPasses THEN [calls EXCEPT !.validation = @ + n, !.generation = @ + n]
  ELSE calls

\* await validateColorQuery(...): the first generateContent call of a resolver.
IssuedOnStart(n) ==
  IF KeyCheckPasses THEN [calls EXCEPT !.validation = @ + n] ELSE calls

\* Nothing typed into the page, no reply text under study.
\* null of singleResult and multiResults; a value v that is set is <<v>>.
NullState == << >>

\* The useState initial values.
IdleForm ==
  /\ mode = "describe"
  /\ suggestionQuery = << >>
  /\ isLoading = FALSE
  /\ error = Null
  /\ singleResult = NullState
  /\ multiResults = NullState

IdlePage == colorInput = << >> /\ parsedColors = << >> /\ IdleForm

IdleText == responseText = << >> /\ jsonText = << >> /\ colorInfo = NoOutcome

Init ==
  /\ IdlePage
  /\ IdleText
  /\ step = "request"
  /\ apiKey \in BOOLEAN
  /\ body \in Bodies
  /\ pc = "start"
  /\ handler = "none"
  /\ tasks = << >>
  /\ promises = << >>
  /\ i = 0
  /\ results = << >>
  /\ calls = [validation |-> 0, generation |-> 0]
  /\ pauses = 0
  /\ response = NoResponse

(***************************************************************************)
(* POST: dispatch on the request body.                                     *)
(***************************************************************************)
Min(a, b) == IF a <= b THEN a ELSE b

\* slice(from, batchSize): the end index taken for a length.
BatchSliceFixedEnd(from, n) == (from + 1)..Min(batchSize, n)

\* The batch taken to the end of the list.
BatchSliceAll(from, n) == (from + 1)..n

\* colorDescriptions.slice(from, from + batchSize), as item indexes.
BatchSlice(from, n) == (from + 1)..Min(from + batchSize, n)

\* One iteration of the for loop up to its await: batch.map starts every item.
StartBatch(from) ==
  LET descriptions == body.colorDescriptions
      n            == Len(descriptions)
      slice        == BatchSlice(from, n)
  IN /\ tasks' = [k \in 1..n |->
                    IF k \in slice THEN StartedTask
                    ELSE IF from = 0 THEN Task("pending", NoOutcome, "none", "none")
                    ELSE tasks[k]]
     /\ promises' = [k \in 1..n |->
                    IF k \in slice
                    THEN IF KeyCheckPasses THEN Pending
                         ELSE WrapItem(descriptions[k], Thrown(ConfigError))
                    ELSE IF from = 0 THEN Pending
                    ELSE promises[k]]
     /\ calls' = IssuedOnStart(Cardinality(slice))
     /\ i' = from
     /\ pc' = "await"

PostSuggestion ==
  /\ pc = "start"
  /\ Truthy(body.suggestionQuery)
  /\ handler' = "suggest"
  /\ tasks' = <<StartedTask>>
  /\ calls' = IssuedOnStart(1)
  /\ IF KeyCheckPasses
     THEN pc' = "await" /\ response' = response
     ELSE pc' = "done" /\ response' = PostCatch(Thrown(ConfigError))
  /\ UNCHANGED <<pageVars, textVars, step, apiKey, body, promises, i, results, pauses>>

PostBatch ==
  /\ pc = "start"
  /\ ~Truthy(body.suggestionQuery)
  /\ body.hasList
  /\ handler' = "batch"
  /\ IF Len(body.colorDescriptions) = 0
     THEN /\ response' = JsonError(400, <<"No color descriptions provided">>)
          /\ pc' = "done"
          /\ UNCHANGED <<tasks, promises, i, calls>>
     ELSE /\ StartBatch(0)
          /\ response' = response
  /\ UNCHANGED <<pageVars, textVars, step, apiKey, body, results, pauses>>

PostSingle ==
  /\ pc = "start"
  /\ ~Truthy(body.suggestionQuery)
  /\ ~body.hasList
  /\ Truthy(body.colorDescription)
  /\ handler' = "single"
  /\ tasks' = <<StartedTask>>
  /\ calls' = IssuedOnStart(1)
  /\ IF KeyCheckPasses
     THEN pc' = "await" /\ response' = response
     ELSE pc' = "done" /\ response' = PostCatch(Thrown(ConfigError))
  /\ UNCHANGED <<pageVars, textVars, step, apiKey, body, promises, i, results, pauses>>

PostMissing ==
  /\ pc = "start"
  /\ ~Truthy(body.suggestionQuery)
  /\ ~body.hasList
  /\ ~Truthy(body.colorDescription)
  /\ response' = JsonError(400, <<"Either color description or suggestion query is required">>)
  /\ pc' = "done"
  /\ UNCHANGED <<pageVars, textVars, step, apiKey, body, handler, tasks, promises, i, results, calls, pauses>>

(***************************************************************************)
(* The resolver tasks: a service call settles and the task runs on to its  *)
(* next await or to its end.                                               *)
(***************************************************************************)
DescriptionOf(k) ==
  IF handler = "batch" THEN body.colorDescriptions[k] ELSE body.colorDescription

ValidationReplies ==
  IF handler = "batch" THEN BatchValidationReplies ELSE AllValidationReplies

GenerationReplies(k) ==
  CASE handler = "batch"  -> BatchColorReplies(DescriptionOf(k))
    [] handler = "single" -> AllColorReplies(DescriptionOf(k))
    [] OTHER         -> AllSuggestionReplies

\* The verdict ignored.
RejectsNever(validation) == FALSE

\* if (!validation.valid)
Rejects(validation) == ~Truthy(validation.valid)

\* The throw after validateColorQuery, in getColorFromText and getColorSuggestions.
RejectionOutcome(verdict) ==
  IF handler = "suggest" THEN Thrown(SuggestionRejection(verdict.reason))
  ELSE Thrown(ColorRejection(verdict.reason))

GenerationOutcome(reply) ==
  IF handler = "suggest" THEN SuggestionOutcome(reply) ELSE ColorOutcome(reply)

\* The answer of the single resolver whatever branch was taken.
PostAnswerAlwaysColor(o) ==
  IF ~o.ok THEN PostCatch(o) ELSE JsonColor(o.value)

\* What POST returns once the awaited resolver has settled.
PostAnswer(o) ==
  IF ~o.ok THEN PostCatch(o)
  ELSE IF handler = "suggest" THEN JsonResults(o.list)
  ELSE JsonColor(o.value)

\* The generation call made twice.
IssueGenerationTwice == [calls EXCEPT !.generation = @ + 2]

\* await ai.models.generateContent(...) after a valid verdict: one call.
IssueGeneration == [calls EXCEPT !.generation = @ + 1]

\* Task k ends with outcome o.
Settle(k, o, val, gen) ==
  /\ tasks' = [tasks EXCEPT ![k] = Task("settled", o, val, gen)]
  /\ IF handler = "batch"
     THEN /\ promises' = [promises EXCEPT ![k] = WrapItem(DescriptionOf(k), o)]
          /\ UNCHANGED <<pc, response>>
     ELSE /\ response' = PostAnswer(o)
          /\ pc' = "done"
          /\ UNCHANGED promises

ValidationSettles(k) ==
  /\ pc = "await"
  /\ k \in DOMAIN tasks
  /\ tasks[k].pc = "validating"
  /\ \E r \in ValidationReplies :
       LET validation == validateColorQuery(r.reply)
       IN IF Rejects(validation)
          THEN /\ Settle(k, RejectionOutcome(validation), r.label, "none")
               /\ UNCHANGED calls
          ELSE /\ tasks' = [tasks EXCEPT ![k] = Task("generating", NoOutcome, r.label, "none")]
               /\ calls' = IssueGeneration
               /\ UNCHANGED <<pc, promises, response>>
  /\ UNCHANGED <<pageVars, textVars, step, apiKey, body, handler, i, results, pauses>>

GenerationSettles(k) ==
  /\ pc = "await"
  /\ k \in DOMAIN tasks
  /\ tasks[k].pc = "generating"
  /\ \E r \in GenerationReplies(k) :
       Settle(k, GenerationOutcome(r.reply), tasks[k].val, r.label)
  /\ UNCHANGED <<pageVars, textVars, step, apiKey, body, handler, i, results, calls, pauses>>

(***************************************************************************)
(* getMultipleColorsFromText: the loop after await Promise.all.            *)
(***************************************************************************)
\* batchResults, in the order of batchPromises.
BatchResults(from, n) ==
  [k \in 1..Cardinality(BatchSlice(from, n)) |-> promises[from + k].value]

\* Promise.all given the promises of the whole list.
BatchPromisesWhole(from, n) == [k \in 1..n |-> promises[k]]

\* batchPromises of the iteration at hand.
BatchPromises(from, n) == [k \in BatchSlice(from, n) |-> promises[k]]

\* The first rejection, had a wrapper rejected.
\* A pause after the last batch too.
MoreBatchesInclusive(from, n) == from + batchSize <= n

\* if (i + batchSize < colorDescriptions.length)
MoreBatches(from, n) == from + batchSize < n

RejectionOf(ps) ==
  LET k == CHOOSE j \in DOMAIN ps : ps[j].status = "rejected"
  IN Thrown(ps[k].value.error)

BatchAwaited ==
  LET n  == Len(body.colorDescriptions)
      ps == BatchPromises(i, n)
  IN /\ pc = "await"
     /\ handler = "batch"
     /\ PromiseAll(ps) # "pending"
     /\ IF PromiseAll(ps) = "rejected"
        THEN /\ response' = PostCatch(RejectionOf(ps))
             /\ pc' = "done"
             /\ UNCHANGED <<results, pauses>>
        ELSE /\ results' = results \o BatchResults(i, n)
             /\ IF MoreBatches(i, n)
                THEN /\ pc' = "pause"
                     /\ pauses' = pauses + 1
                     /\ response' = response
                ELSE /\ pc' = "done"
                     /\ response' = JsonResults(results')
                     /\ pauses' = pauses
     /\ UNCHANGED <<pageVars, textVars, step, apiKey, body, handler, tasks, promises, i, calls>>

\* The 100 ms timeout fires; i += batchSize and the next iteration starts.
PauseElapsed ==
  /\ pc = "pause"
  /\ StartBatch(i + batchSize)
  /\ UNCHANGED <<pageVars, textVars, step, apiKey, body, handler, results, pauses, response>>

Next ==
  \/ PostSuggestion
  \/ PostBatch
  \/ PostSingle
  \/ PostMissing
  \/ \E k \in 1..(MaxItems + 1) : ValidationSettles(k)
  \/ \E k \in 1..(MaxItems + 1) : GenerationSettles(k)
  \/ BatchAwaited
  \/ PauseElapsed

Spec == Init /\ [][Next]_vars

(***************************************************************************)
(* The batch request under fairness: every service call settles, the timer *)
(* of a pause fires and a continuation whose promise has settled runs.     *)
(***************************************************************************)
InitBatch ==
  /\ Init
  /\ body.hasList
  /\ ~Truthy(body.suggestionQuery)

NextBatch ==
  \/ PostBatch
  \/ \E k \in 1..(MaxItems + 1) : ValidationSettles(k)
  \/ \E k \in 1..(MaxItems + 1) : GenerationSettles(k)
  \/ BatchAwaited
  \/ PauseElapsed

SpecBatchFair == InitBatch /\ [][NextBatch]_vars /\ WF_vars(NextBatch)

(***************************************************************************)
(* getColorFromText on one generation reply text, studied on its own: the  *)
(* text is drawn from runs of prose and brace tokens around a JSON value.  *)
(***************************************************************************)
\* No POST invocation in progress.
NoRequest ==
  /\ body = RequestBody(U, FALSE, << >>, U)
  /\ pc = "off"
  /\ handler = "none"
  /\ tasks = << >>
  /\ promises = << >>
  /\ i = 0
  /\ results = << >>
  /\ calls = [validation |-> 0, generation |-> 0]
  /\ pauses = 0
  /\ response = NoResponse

IdleRequest == apiKey = TRUE /\ NoRequest

AffixTokens == {"w", "{", "}"}

Affixes == UNION { [1..n -> AffixTokens] : n \in 0..MaxAffix }

\* What the model may have put between the prose: nothing, a number, a
\* colour object, a colour object with a category, an in-band error.
JsonValues ==
  { << >>, <<"5">>, <<"{", "C_red", "}">>, <<"{", "K_sand", "}">>, <<"{", "E_exact", "}">> }

ResponseTexts ==
  { prefix \o J \o suffix : prefix \in Affixes, J \in JsonValues, suffix \in Affixes }

InitText ==
  /\ IdleRequest
  /\ IdlePage
  /\ step = "text"
  /\ responseText \in ResponseTexts
  /\ jsonText = << >>
  /\ colorInfo = NoOutcome

\* const responseText = response.text || '' ... return parsedResponse
ParseResponse ==
  /\ step = "text"
  /\ jsonText' = ExtractJson(responseText, "{", "}")
  /\ colorInfo' = ColorOutcome(TextReply(responseText))
  /\ step' = "parsed"
  /\ UNCHANGED <<requestVars, pageVars, responseText>>

NextText == ParseResponse

SpecText == InitText /\ [][NextText]_vars

(***************************************************************************)
(* The parser on one text of the describe form, studied on its own: the    *)
(* text is up to MaxLines lines, each one of the lines below.              *)
(***************************************************************************)
\* "Blues:"
HeaderBlues ==
  <<"B", "l", "u", "e", "s", ":">>

\* "Reds:"
HeaderReds ==
  <<"R", "e", "d", "s", ":">>

\* "navy, sky blue"
NavySkyBlue ==
  <<"n", "a", "v", "y", ",", " ", "s", "k", "y", " ", "b", "l", "u", "e">>

\* "teal"
Teal ==
  <<"t", "e", "a", "l">>

\* "sand"
Sand ==
  <<"s", "a", "n", "d">>

\* "red and tan"
RedAndTan ==
  <<"r", "e", "d", " ", "a", "n", "d", " ", "t", "a", "n">>

\* "Blues: navy, sky blue"
ProTip ==
  <<"B", "l", "u", "e", "s", ":", " ", "n", "a", "v", "y", ",", " ", "s",
     "k", "y", " ", "b", "l", "u", "e">>

\* "Earthy Tones: earthy green, sand beige"
Tip ==
  <<"E", "a", "r", "t", "h", "y", " ", "T", "o", "n", "e", "s", ":", " ",
     "e", "a", "r", "t", "h", "y", " ", "g", "r", "e", "e", "n", ",", " ",
     "s", "a", "n", "d", " ", "b", "e", "i", "g", "e">>

\* "* red * blue"
Bulleted ==
  <<"*", " ", "r", "e", "d", " ", "*", " ", "b", "l", "u", "e">>

\* "red"
Red ==
  <<"r", "e", "d">>

\* " "
BlankLine ==
  <<" ">>

\* "red,"
TrailingComma ==
  <<"r", "e", "d", ",">>

\* "red, tan - blue"
CommasAndBullet ==
  <<"r", "e", "d", ",", " ", "t", "a", "n", " ", "-", " ", "b", "l", "u", "e">>

LineSet ==
  { HeaderBlues, HeaderReds, NavySkyBlue, Teal,
    Sand, RedAndTan, ProTip, Tip,
    Bulleted, Red, BlankLine, TrailingComma, CommasAndBullet }

Inputs ==
  { join(typed, <<"\n">>) : typed \in UNION { [1..n -> LineSet] : n \in 0..MaxLines } }

InitParse ==
  /\ IdleRequest
  /\ IdleText
  /\ step = "typed"
  /\ colorInput \in Inputs
  /\ parsedColors = << >>
  /\ IdleForm

\* const parsedColors = parseStructuredColorInput(colorInput)
ParseInput ==
  /\ step = "typed"
  /\ parsedColors' = parseStructuredColorInput(colorInput)
  /\ step' = "parsed"
  /\ UNCHANGED <<requestVars, textVars, formVars, colorInput>>

NextParse == ParseInput

SpecParse == InitParse /\ [][NextParse]_vars

(***************************************************************************)
(* The page (Home): the two forms, their submit handlers and the fetch of  *)
(* /api/color, which runs POST above on the body the handler sent.  The    *)
(* submit buttons are disabled while isLoading, so one request is in       *)
(* progress at a time.                                                     *)
(***************************************************************************)
\* "beach bedroom"
BeachBedroom ==
  <<"b", "e", "a", "c", "h", " ", "b", "e", "d", "r", "o", "o", "m">>

\* "red" / "Blues:" / "navy, sky blue" on three lines.
Grouped == join(<<Red, HeaderBlues, NavySkyBlue>>, <<"\n">>)

PageInputs == {BlankLine, Red, Grouped}

PageQueries == {<< >>, BeachBedroom}

\* JSON.stringify in the page and request.json() in POST carry a text
\* unchanged; in POST above a text is one atom, here it is the sequence of
\* its characters.
Atom(text) ==
  CASE text = Red            -> "red"
    [] text = <<"n", "a", "v", "y">> -> "navy"
    [] text = <<"s", "k", "y", " ", "b", "l", "u", "e">> -> "sky blue"
    [] text = BeachBedroom   -> "beach bedroom"
    [] OTHER                 -> "other"

DescribeBlank == <<"Please enter a color description">>

SuggestBlank == <<"Please enter a suggestion query">>

DescribeFailed == <<"Failed to get color information">>

SuggestFailed == <<"Failed to get color suggestions">>

\* The TypeError fetch rejects with.
FetchFailure == <<"Failed to fetch">>

\* setColorInput(e.target.value) in the describe form, typed between
\* submissions: a handler reads colorInput only before its fetch.
SetColorInput ==
  /\ step = "page"
  /\ mode = "describe"
  /\ ~isLoading
  /\ \E text \in PageInputs : colorInput' = text
  /\ UNCHANGED <<requestVars, textVars, step, parsedColors, mode, suggestionQuery,
                 isLoading, error, singleResult, multiResults>>

\* setSuggestionQuery(e.target.value) in the suggest form.
SetSuggestionQuery ==
  /\ step = "page"
  /\ mode = "suggest"
  /\ ~isLoading
  /\ \E text \in PageQueries : suggestionQuery' = text
  /\ UNCHANGED <<requestVars, textVars, step, colorInput, parsedColors, mode,
                 isLoading, error, singleResult, multiResults>>

\* onClick={() => setMode(...)}
SetMode ==
  /\ step = "page"
  /\ \E m \in {"describe", "suggest"} : mode' = m
  /\ UNCHANGED <<requestVars, textVars, step, colorInput, parsedColors, suggestionQuery,
                 isLoading, error, singleResult, multiResults>>

\* fetch("/api/color", { method: "POST", body }): a new POST invocation.
StartFetch(b) ==
  /\ body' = b
  /\ pc' = "start"
  /\ handler' = "none"
  /\ tasks' = << >>
  /\ promises' = << >>
  /\ i' = 0
  /\ results' = << >>
  /\ calls' = [validation |-> 0, generation |-> 0]
  /\ pauses' = 0
  /\ response' = NoResponse

\* setIsLoading(true); setError(""); setSingleResult(null); setMultiResults(null)
ClearShown ==
  /\ isLoading' = TRUE
  /\ error' = Null
  /\ singleResult' = NullState
  /\ multiResults' = NullState

\* handleDescribeSubmit up to its await fetch.
handleDescribeSubmit ==
  /\ step = "page"
  /\ mode = "describe"
  /\ ~isLoading
  /\ IF trim(colorInput) = << >>
     THEN /\ error' = DescribeBlank
          /\ UNCHANGED <<requestVars, parsedColors, isLoading, singleResult, multiResults>>
     ELSE LET parsed       == parseStructuredColorInput(colorInput)
              isMultiColor == Len(parsed) > 1
              colorDescriptions == [k \in 1..Len(parsed) |-> Atom(parsed[k].color)]
          IN /\ ClearShown
             /\ parsedColors' = parsed
             /\ StartFetch(IF isMultiColor
                           THEN RequestBody(U, TRUE, colorDescriptions, U)
                           ELSE RequestBody(Atom(parsed[1].color), FALSE, << >>, U))
             /\ UNCHANGED apiKey
  /\ UNCHANGED <<textVars, step, colorInput, mode, suggestionQuery>>

\* handleSuggestionSubmit up to its await fetch.
handleSuggestionSubmit ==
  /\ step = "page"
  /\ mode = "suggest"
  /\ ~isLoading
  /\ IF trim(suggestionQuery) = << >>
     THEN /\ error' = SuggestBlank
          /\ UNCHANGED <<requestVars, isLoading, singleResult, multiResults>>
     ELSE /\ ClearShown
          /\ StartFetch(RequestBody(U, FALSE, << >>, Atom(suggestionQuery)))
          /\ UNCHANGED apiKey
  /\ UNCHANGED <<textVars, step, colorInput, parsedColors, mode, suggestionQuery>>

\* The handler that is waiting for the response, told by the body it sent.
Flow ==
  CASE Truthy(body.suggestionQuery) -> "suggest"
    [] body.hasList                 -> "multi"
    [] OTHER                        -> "single"

\* response.ok
ResponseOk(r) == r.status >= 200 /\ r.status <= 299

\* Every result given the category of the first parsed colour.
WithCategoriesOfFirst(rs, parsed) ==
  [index \in 1..Len(rs) |-> [rs[index] EXCEPT !.category = parsed[1].category]]

\* data.results.map((result, index) => ({ ...result,
\*   category: parsedColors[index]?.category }))
WithCategories(rs, parsed) ==
  [index \in 1..Len(rs) |->
     [rs[index] EXCEPT !.category = IF index \in DOMAIN parsed
                                    THEN parsed[index].category
                                    ELSE NoCategory]]

\* isLoading after a handler whose finally is skipped when it has thrown.
LoadingAfterNoFinally(failed) == failed

\* finally { setIsLoading(false) }
LoadingAfter(failed) == FALSE

\* The POST invocation is over.
EndFetch ==
  /\ pc' = "off"
  /\ handler' = "none"
  /\ tasks' = << >>
  /\ promises' = << >>
  /\ i' = 0
  /\ results' = << >>
  /\ calls' = [validation |-> 0, generation |-> 0]
  /\ pauses' = 0
  /\ response' = NoResponse
  /\ UNCHANGED <<apiKey, body>>

\* The rest of a submit handler, from const data = await response.json().
FetchSettles ==
  /\ step = "page"
  /\ isLoading
  /\ pc = "done"
  /\ IF ~ResponseOk(response)
     THEN /\ error' = (IF response.error # Null THEN response.error
                       ELSE IF Flow = "suggest" THEN SuggestFailed ELSE DescribeFailed)
          /\ UNCHANGED <<singleResult, multiResults>>
     ELSE IF Flow = "single"
     THEN /\ singleResult' = <<response.color>>
          /\ UNCHANGED <<error, multiResults>>
     ELSE IF response.kind # "results"
     THEN /\ error' = IF Flow = "multi" THEN TypeErrorMessage ELSE error
          /\ multiResults' = IF Flow = "multi" THEN multiResults ELSE <<U>>
          /\ UNCHANGED singleResult
     ELSE /\ multiResults' = IF Flow = "multi"
                             THEN <<WithCategories(response.results, parsedColors)>>
                             ELSE <<response.results>>
          /\ UNCHANGED <<error, singleResult>>
  /\ isLoading' = LoadingAfter(~ResponseOk(response))
  /\ EndFetch
  /\ UNCHANGED <<textVars, step, colorInput, parsedColors, mode, suggestionQuery>>

\* fetch or response.json() rejects: catch, then finally.
FetchFails ==
  /\ step = "page"
  /\ isLoading
  /\ pc \in {"start", "done"}
  /\ error' = FetchFailure
  /\ isLoading' = LoadingAfter(TRUE)
  /\ EndFetch
  /\ UNCHANGED <<textVars, step, colorInput, parsedColors, mode, suggestionQuery,
                 singleResult, multiResults>>

InitPage ==
  /\ apiKey \in BOOLEAN
  /\ NoRequest
  /\ IdleText
  /\ IdlePage
  /\ step = "page"

\* What the server and the network do for the request in progress.
RequestStep ==
  \/ PostSuggestion
  \/ PostBatch
  \/ PostSingle
  \/ \E k \in 1..(MaxItems + 1) : ValidationSettles(k)
  \/ \E k \in 1..(MaxItems + 1) : GenerationSettles(k)
  \/ BatchAwaited
  \/ FetchSettles

NextPage ==
  \/ SetColorInput
  \/ SetSuggestionQuery
  \/ SetMode
  \/ handleDescribeSubmit
  \/ handleSuggestionSubmit
  \/ RequestStep
  \/ FetchFails

SpecPage == InitPage /\ [][NextPage]_vars

\* Every call of the service settles and every continuation runs.
SpecPageFair == SpecPage /\ WF_vars(RequestStep)

(***************************************************************************)
(* Properties.                                                             *)
(***************************************************************************)
N == Len(body.colorDescriptions)

BatchAnswered == handler = "batch" /\ pc = "done" /\ N > 0

BatchOf(k) == (k - 1) \div batchSize

\* The replies that make an item fail, by class.
FailingValidationLabels ==
  {"verdictInvalid", "thrown", "empty", "unparseable", "nonObject", "wrongShape"}

FailingGenerationLabels == {"thrown", "empty", "unparseable", "inBandError"}

FailingItem(k) ==
  \/ ~apiKey
  \/ tasks[k].val \in FailingValidationLabels
  \/ tasks[k].gen \in FailingGenerationLabels

ColourOf(phrase) == Body(ColourToken(phrase))

C3_ConfigErrorFailsRequest ==
  (~apiKey /\ pc = "done" /\ DOMAIN tasks # {}) =>
    response = JsonError(500, ConfigError)

\* C4: without the credential no call to the generation service is issued,
\* by any entry point and for any number of items.
C4_NoCallWithoutKey ==
  ~apiKey =>
    /\ calls.validation = 0
    /\ calls.generation = 0
    /\ \A k \in DOMAIN tasks : tasks[k].pc \notin {"validating", "generating"}

C4_Witness ==
  /\ ~apiKey
  /\ pc = "done"
  /\ handler = "batch"
  /\ Len(results) > batchSize

\* C5: no resolution of a later batch is started before every resolution of
\* the batches before it has settled, failed siblings or not, and the pause
\* begins only once the whole batch has settled.
C5_BatchBarrier ==
  handler = "batch" =>
    /\ \A j \in DOMAIN tasks : \A k \in DOMAIN tasks :
         (BatchOf(j) < BatchOf(k) /\ tasks[k].pc # "pending") => tasks[j].pc = "settled"
    /\ pc = "pause" =>
         \A j \in DOMAIN tasks : j <= i + batchSize => tasks[j].pc = "settled"

C5_Witness ==
  /\ handler = "batch"
  /\ N > batchSize
  /\ tasks[batchSize + 1].pc = "validating"
  /\ \E j \in 1..batchSize : promises[j].value.error # Null
  /\ \E j \in 1..batchSize : promises[j].value.error = Null

SuggestionJudgedInvalid ==
  /\ handler = "suggest"
  /\ DOMAIN tasks # {}
  /\ tasks[1].val \in FailingValidationLabels

\* C6, as stated: getColorSuggestions does not reject a query the validator
\* judges invalid; it still issues the generation call for the palette.
C6_SuggestNeverRejects ==
  (SuggestionJudgedInvalid /\ pc = "done") =>
    /\ calls.generation = 1
    /\ tasks[1].gen # "none"

\* C6, amended: getColorSuggestions rejects a query the validator judges
\* invalid: no generation call is issued and POST answers 500 with the
\* rejection message that quotes the validator's reason.
C6_SuggestRejectsInvalid ==
  SuggestionJudgedInvalid =>
    /\ tasks[1].pc = "settled"
    /\ calls.generation = 0
    /\ pc = "done"
    /\ response.status = 500
    /\ Len(response.error) = 3
    /\ response.error = SuggestionRejection(response.error[2])

C6_Witness ==
  /\ SuggestionJudgedInvalid
  /\ tasks[1].val = "verdictInvalid"
  /\ response.status = 500
  /\ response.error = SuggestionRejection("not about colors")

\* C7: every ColorResult of a batch either has error = null and the colour
\* fields the resolver returned, or has an error message and empty colorName,
\* hexCode and description; none has both an error and a colour field.
C7_ResultShape ==
  handler = "batch" =>
    /\ \A k \in DOMAIN tasks :
         tasks[k].pc = "settled" =>
           LET r == promises[k].value
               o == tasks[k].out
           IN /\ promises[k].status = "fulfilled"
              /\ \/ /\ o.ok
                    /\ r.error = Null
                    /\ r.colorName = o.value.obj.colorName
                    /\ r.hexCode = o.value.obj.hexCode
                    /\ r.description = o.value.obj.description
                 \/ /\ ~o.ok
                    /\ r.error # Null
                    /\ r.colorName = "" /\ r.hexCode = "" /\ r.description = ""
    /\ \A k \in 1..Len(results) : results[k] = promises[k].value

C7_Witness ==
  /\ BatchAnswered
  /\ \E j \in 1..Len(results) : results[j].error = InvalidFormat /\ results[j].colorName = ""
  /\ \E j \in 1..Len(results) : results[j].error = Null /\ results[j].colorName = "Navy"

\* C8: a generation reply that is a JSON object with an error key makes
\* getColorFromText fail with the service's error value as its message,
\* whatever that text is, and not with a parse error or a ColorResponse.
C8_InBandErrorSurfaced ==
  (handler = "single" /\ pc = "done" /\ tasks[1].gen = "inBandError") =>
    /\ response.kind = "error"
    /\ response.error \in {NotAColor, <<"Unknown color">>}

\* C9: on the single, batch and suggestion paths a generation reply whose
\* text cannot be parsed into the expected JSON shape is surfaced as
\* 'Invalid response format from AI'.
C9_ParseFailureTyped ==
  /\ (handler \in {"single", "suggest"} /\ pc = "done"
        /\ tasks[1].gen \in {"unparseable", "nonObject", "wrongShape"}) =>
       response = JsonError(500, InvalidFormat)
  /\ handler = "batch" =>
       \A k \in DOMAIN tasks :
         (tasks[k].pc = "settled" /\ tasks[k].gen \in {"unparseable", "nonObject", "wrongShape"}) =>
           promises[k].value.error = InvalidFormat

\* C10: validateColorQuery never raises; when the call throws or returns empty
\* text, text that is not JSON, or JSON that is not an object, its verdict is
\* the fallback (valid = false, reason 'Error processing validation') and the
\* caller goes on to its rejection.
C10_ValidatorFallback ==
  (handler \in {"single", "suggest"} /\ DOMAIN tasks # {}
     /\ tasks[1].val \in {"thrown", "empty", "unparseable", "nonObject"}) =>
    /\ tasks[1].pc = "settled"
    /\ ~tasks[1].out.ok
    /\ Len(tasks[1].out.message) = 3
    /\ tasks[1].out.message[2] = FallbackReason


(***************************************************************************)
(* Calls, rejections and dispatch (C11 to C17).                            *)
(***************************************************************************)
\* The items whose validation call has been issued, and those whose
\* generation call has been issued.
Validated == {k \in DOMAIN tasks : apiKey /\ tasks[k].pc # "pending"}

Generated == {k \in DOMAIN tasks : tasks[k].pc = "generating" \/ tasks[k].gen # "none"}

ColorPath == handler \in {"single", "batch"}

\* C11: in getColorFromText the generation call is issued only after the
\* validation call has returned a valid verdict; a phrase whose verdict is
\* not valid never gets a generation call and costs exactly one call.
C11_ValidationFirst ==
  ColorPath =>
    /\ calls.validation = Cardinality(Validated)
    /\ calls.generation = Cardinality(Generated)
    /\ \A k \in Generated : k \in Validated /\ tasks[k].val = "verdictValid"
    /\ \A k \in DOMAIN tasks :
         tasks[k].val = "verdictInvalid" =>
           /\ tasks[k].pc = "settled" /\ tasks[k].gen = "none"
           /\ ~tasks[k].out.ok
    /\ (handler = "single" /\ tasks[1].val = "verdictInvalid") =>
         calls = [validation |-> 1, generation |-> 0]

C11_Witness ==
  /\ handler = "single" /\ pc = "done"
  /\ tasks[1].val = "verdictInvalid"
  /\ calls = [validation |-> 1, generation |-> 0]

TechnicalMessages == {ConfigError, EmptyResponse, InvalidFormat, PostFallback, UnknownError}

StatedReason == Body("V_false").reason

\* C12: a phrase the validator judges invalid reaches the caller with the
\* rejection message, which carries the validator's reason and is none of the
\* messages of the technical failures; a missing key, an empty generation
\* reply and an unparseable one never produce the rejection message.
C12_RejectionDistinct ==
  /\ (handler = "single" /\ pc = "done") =>
       /\ tasks[1].val = "verdictInvalid" =>
            /\ response.kind = "error"
            /\ response.error = ColorRejection(StatedReason)
            /\ response.error \notin TechnicalMessages
            /\ \E j \in DOMAIN response.error : response.error[j] = StatedReason
       /\ (~apiKey \/ tasks[1].gen \in {"empty", "unparseable"}) =>
            /\ response.error \in TechnicalMessages
            /\ response.error[1] # RejectionPrefix
  /\ handler = "batch" =>
       \A k \in DOMAIN tasks :
         (tasks[k].pc = "settled" /\ tasks[k].val = "verdictInvalid") =>
           /\ promises[k].value.error = ColorRejection(StatedReason)
           /\ promises[k].value.error \notin TechnicalMessages

C12_Witness ==
  /\ handler = "single" /\ pc = "done"
  /\ tasks[1].val = "verdictInvalid"
  /\ response = JsonError(500, ColorRejection("not about colors"))

\* C13: no retry.  One getColorFromText or getColorSuggestions invocation
\* issues at most one validation and one generation call, and
\* getMultipleColorsFromText on N items at most N of each, whatever the
\* replies are.
C13_NoRetry ==
  /\ handler \in {"single", "suggest"} =>
       calls.validation <= 1 /\ calls.generation <= 1
  /\ handler = "batch" =>
       /\ calls.validation <= N /\ calls.generation <= N
       /\ calls.validation + calls.generation <= 2 * N
  /\ handler = "none" => calls = [validation |-> 0, generation |-> 0]

C13_Witness ==
  \/ /\ handler = "single" /\ pc = "done"
     /\ tasks[1].gen = "thrown"
     /\ calls = [validation |-> 1, generation |-> 1]
  \/ /\ BatchAnswered /\ N = MaxItems
     /\ \E k \in DOMAIN tasks : tasks[k].gen = "empty"
     /\ calls.validation = N

Present(x) == x # U

FieldsPresent ==
  (IF Present(body.colorDescription) THEN 1 ELSE 0)
  + (IF body.hasList THEN 1 ELSE 0)
  + (IF Present(body.suggestionQuery) THEN 1 ELSE 0)

ResolverInvoked == tasks # << >>

\* C15: POST accepts a request only if exactly one of the three fields is
\* present; with none it answers 400 and invokes no resolver, and with an
\* empty colorDescriptions array it answers 400 and invokes no resolver.
C15_ExactlyOneAccepted ==
  pc # "start" =>
    /\ ResolverInvoked => FieldsPresent = 1
    /\ FieldsPresent = 0 => response.status = 400 /\ ~ResolverInvoked
    /\ (body.hasList /\ body.colorDescriptions = << >>) =>
         response.status = 400 /\ ~ResolverInvoked

OnlySuggestion ==
  Truthy(body.suggestionQuery) /\ ~body.hasList /\ ~Present(body.colorDescription)

OnlyList ==
  body.hasList /\ body.colorDescriptions # << >>
    /\ ~Present(body.suggestionQuery) /\ ~Present(body.colorDescription)

OnlySingle ==
  Truthy(body.colorDescription) /\ ~body.hasList /\ ~Present(body.suggestionQuery)

\* C16: a request with only suggestionQuery is handled by getColorSuggestions
\* and answered with { results }, one with only a non-empty colorDescriptions
\* by getMultipleColorsFromText and answered with { results }, one with only
\* colorDescription by getColorFromText and answered with the ColorResponse;
\* one handler runs per request (a failed resolver is answered by the catch).
C16_Dispatch ==
  pc # "start" =>
    /\ OnlySuggestion =>
         /\ handler = "suggest" /\ Len(tasks) = 1 /\ promises = << >>
         /\ pc = "done" =>
              IF tasks[1].out.ok THEN response = JsonResults(tasks[1].out.list)
              ELSE response.kind = "error" /\ response.status = 500
    /\ OnlyList =>
         /\ handler = "batch" /\ Len(tasks) = N
         /\ pc = "done" => response = JsonResults(results) /\ Len(results) = N
    /\ OnlySingle =>
         /\ handler = "single" /\ Len(tasks) = 1 /\ promises = << >>
         /\ pc = "done" =>
              IF tasks[1].out.ok THEN response = JsonColor(tasks[1].out.value)
              ELSE response.kind = "error" /\ response.status = 500

C16_Witness ==
  /\ OnlySuggestion /\ pc = "done"
  /\ tasks[1].out.ok
  /\ response.kind = "results" /\ Len(response.results) > 0

PausesFor(n) == (n + batchSize - 1) \div batchSize - 1

\* C17: getMultipleColorsFromText pauses between consecutive batches only:
\* on N items it has paused ceil(N/5) - 1 times when it returns, a pause
\* starts only when every item of the batches so far has settled and a
\* further batch remains, whatever number of those items failed.
C17_PausesBetweenBatches ==
  (handler = "batch" /\ N > 0) =>
    /\ pc = "done" => pauses = PausesFor(N)
    /\ pc = "await" => pauses = i \div batchSize
    /\ pc = "pause" =>
         /\ pauses = i \div batchSize + 1
         /\ i + batchSize < N
         /\ \A k \in 1..(i + batchSize) : tasks[k].pc = "settled"
         /\ Len(results) = i + batchSize

C17_Witness ==
  /\ handler = "batch" /\ pc = "pause"
  /\ pauses = 1
  /\ \E k \in 1..batchSize : FailingItem(k)
  /\ \E k \in 1..batchSize : ~FailingItem(k)

ColourObjects == { <<"{", "C_red", "}">>, <<"{", "K_sand", "}">> }

\* C14: when the reply text is prefix + J + suffix, J a JSON object with
\* colorName, hexCode and description, no "{" in prefix and no "}" in suffix,
\* getColorFromText parses exactly J and returns its fields; a text without
\* any brace is parsed as it stands.
C14_ExtractionTolerance ==
  step = "parsed" =>
    /\ \A prefix \in Affixes, suffix \in Affixes, J \in ColourObjects :
         ( /\ responseText = prefix \o J \o suffix
           /\ ~includes(prefix, "{")
           /\ ~includes(suffix, "}") ) =>
           /\ jsonText = J
           /\ colorInfo = Returned(JSONparse(J))
           /\ colorInfo.value.obj = Body(J[2])
    /\ (~includes(responseText, "{") /\ ~includes(responseText, "}")) =>
         /\ jsonText = responseText
         /\ responseText # << >> =>
              colorInfo = (IF JSONparse(responseText).ok
                           THEN Returned(JSONparse(responseText))
                           ELSE Thrown(InvalidFormat))

C14_Witness ==
  /\ step = "parsed"
  /\ responseText = <<"w", "}", "{", "K_sand", "}", "{", "w">>
  /\ jsonText = <<"{", "K_sand", "}">>
  /\ colorInfo.ok
  /\ colorInfo.value.obj.hexCode = "#C2B280"
(***************************************************************************)
(* The parser (C18 to C20).                                                *)
(***************************************************************************)
\* The non-blank lines of the text typed.
Lines == SelectSeq(split(colorInput, "/\\n+/"), NotBlank)

MultiLine == Len(Lines) > 1

HasColon(line) == includes(line, ":")

BeforeColon(line) == trim(SubSeq(line, 1, indexOf(line, ":")))

AfterColon(line) == SubSeq(line, indexOf(line, ":") + 2, Len(line))

ColourText(line) == IF HasColon(line) THEN AfterColon(line) ELSE line

\* The category the rule gives to the phrases of line l: that of the nearest
\* line up to l that has a colon.
CategoryAt(l) ==
  LET headers == {j \in 1..l : HasColon(Lines[j])}
  IN IF headers = {} THEN NoCategory
     ELSE BeforeColon(Lines[CHOOSE j \in headers : \A h \in headers : h <= j])

Occurs(phrase, line) == \E p \in 1..Len(line) : StartsAt(line, p, phrase)

ColoursOf(parsed) == [k \in 1..Len(parsed) |-> parsed[k].color]

\* C18: for multi-line input every parsed phrase is taken from a line and
\* carries that line's category: the trimmed text before the first colon of
\* the line itself or, when it has no colon, of the nearest earlier line with
\* one (none if there is none); "Blues:" / "navy, sky blue" / "teal" gives
\* navy, sky blue and teal, all with category Blues.
C18_CategoryCarryOver ==
  (step = "parsed" /\ MultiLine) =>
    /\ \A k \in DOMAIN parsedColors :
         \E l \in DOMAIN Lines :
           /\ Occurs(parsedColors[k].color, Lines[l])
           /\ parsedColors[k].category = CategoryAt(l)
    /\ colorInput = join(<<HeaderBlues, NavySkyBlue, Teal>>, <<"\n">>) =>
         parsedColors = Tagged(<<<<"n", "a", "v", "y">>,
                                 <<"s", "k", "y", " ", "b", "l", "u", "e">>,
                                 <<"t", "e", "a", "l">>>>,
                               <<"B", "l", "u", "e", "s">>)

\* "and" matched only as a word of its own.
MatchLenWholeWord(s, p) ==
  IF s[p] = "," THEN 1
  ELSE IF /\ StartsAt(s, p, <<"a", "n", "d">>)
          /\ (p = 1 \/ s[p - 1] \in Whitespace \cup {","})
          /\ (p + 3 > Len(s) \/ s[p + 3] \in Whitespace \cup {","})
       THEN 3
  ELSE 0

RECURSIVE SplitWholeWord(_, _, _)
SplitWholeWord(s, start, p) ==
  IF p > Len(s) THEN <<SubSeq(s, start, Len(s))>>
  ELSE LET matched == MatchLenWholeWord(s, p)
       IN IF matched > 0
          THEN <<SubSeq(s, start, p - 1)>> \o SplitWholeWord(s, p + matched, p + matched)
          ELSE SplitWholeWord(s, start, p + 1)

\* The phrases of the lines, split at commas and at the word "and" only.
RECURSIVE WholeWordPhrases(_)
WholeWordPhrases(lines) ==
  IF lines = << >> THEN << >>
  ELSE TrimmedPieces(SplitWholeWord(ColourText(trim(Head(lines))), 1, 1))
         \o WholeWordPhrases(Tail(lines))

\* C19: in multi-line input the colour text of each line is split at commas
\* and at the word "and" and nowhere else; a phrase with the letters a-n-d
\* inside a word is kept whole.
C19_SplitAtWordAnd ==
  (step = "parsed" /\ MultiLine /\ WholeWordPhrases(Lines) # << >>) =>
    ColoursOf(parsedColors) = WholeWordPhrases(Lines)

\* The line is of the form "Category: colour1, colour2".
TipForm(line) ==
  /\ HasColon(line)
  /\ BeforeColon(line) # << >>
  /\ Len(TrimmedPieces(split(AfterColon(line), "/,\\s*/"))) >= 2

\* C20: a single-line input "Category: colour1, colour2", the form of the
\* page's own tip, is parsed into colour1 and colour2, each with category
\* "Category".
C20_SingleLineCategory ==
  (step = "parsed" /\ Len(Lines) = 1 /\ TipForm(trim(Lines[1]))) =>
    parsedColors = Tagged(TrimmedPieces(split(AfterColon(trim(Lines[1])), "/,\\s*/")),
                          BeforeColon(trim(Lines[1])))

(***************************************************************************)
(* The parser (C21 to C25).                                                *)
(***************************************************************************)
ByBullets == SelectSeq(split(colorInput, "/[*-]\\s*/"), NotBlank)

ByCommas == SelectSeq(split(colorInput, "/,\\s*/"), NotBlank)

Uncategorised == \A k \in DOMAIN parsedColors : parsedColors[k].category = NoCategory

\* C21: on input with at most one non-blank line the parser splits at the
\* bullet markers and, if that gives fewer than two non-blank items, at the
\* commas; "* red * blue" is split into two queries by the bullets.
C21_DelimiterFallbackOrder ==
  (step = "parsed" /\ Len(Lines) <= 1) =>
    /\ Uncategorised
    /\ Len(ByBullets) >= 2 => ColoursOf(parsedColors) = ByBullets
    /\ (Len(ByBullets) <= 1 /\ Len(ByCommas) >= 2) => ColoursOf(parsedColors) = ByCommas
    /\ colorInput = Bulleted =>
         /\ Len(parsedColors) = 2
         /\ trim(parsedColors[1].color) = <<"r", "e", "d">>
         /\ trim(parsedColors[2].color) = <<"b", "l", "u", "e">>

C21_Witness ==
  /\ step = "parsed"
  /\ colorInput = CommasAndBullet
  /\ Len(ByCommas) = 2
  /\ ColoursOf(parsedColors) = <<<<"r", "e", "d", ",", " ", "t", "a", "n", " ">>, <<"b", "l", "u", "e">>>>

\* C22: when lines, bullet markers and commas each yield at most one item,
\* the parser returns one uncategorised query whose phrase is the input
\* text unchanged.
C22_OriginalTextReturned ==
  (step = "parsed" /\ Len(Lines) <= 1 /\ Len(ByBullets) <= 1 /\ Len(ByCommas) <= 1) =>
    parsedColors = <<ParsedColor(colorInput, NoCategory)>>

HasBulletOrComma(text) == \E p \in DOMAIN text : text[p] \in BulletMarkers \cup {","}

\* C23: a single-line input without bullet marker and without comma, such
\* as "red", is returned as one query whose phrase is the input and whose
\* category is absent.
C23_FlatInputUnchanged ==
  (step = "parsed" /\ Len(Lines) <= 1 /\ ~HasBulletOrComma(colorInput)) =>
    parsedColors = <<ParsedColor(colorInput, NoCategory)>>

C23_Witness ==
  /\ step = "parsed"
  /\ colorInput = RedAndTan
  /\ parsedColors = <<ParsedColor(RedAndTan, NoCategory)>>

\* A header: a line with nothing but blanks after its first colon.
HeaderOnly(line) == HasColon(line) /\ trim(AfterColon(line)) = << >>

\* C24: in multi-line input a category header with no colours after its
\* colon contributes no query: no parsed phrase contains the header, and an
\* input made of headers only gives no query.
C24_HeaderContributesNothing ==
  (step = "parsed" /\ MultiLine) =>
    /\ \A k \in DOMAIN parsedColors : \A l \in DOMAIN Lines :
         HeaderOnly(trim(Lines[l])) => ~Occurs(trim(Lines[l]), parsedColors[k].color)
    /\ (\A l \in DOMAIN Lines : HeaderOnly(trim(Lines[l]))) => parsedColors = << >>

\* C25: no query returned by the parser has a phrase that is empty after
\* trimming, whatever the input.
C25_NoBlankPhrase ==
  step = "parsed" =>
    \A k \in DOMAIN parsedColors : trim(parsedColors[k].color) # << >>

\* C25, amended: on every input that is not blank no query has a phrase
\* that is empty after trimming; a blank input comes back as one query whose
\* phrase is the input itself.
C25_NoBlankPhraseOfNonBlankInput ==
  step = "parsed" =>
    IF trim(colorInput) # << >>
    THEN \A k \in DOMAIN parsedColors : trim(parsedColors[k].color) # << >>
    ELSE parsedColors = <<ParsedColor(colorInput, NoCategory)>>

C25_Witness ==
  /\ step = "parsed"
  /\ colorInput = join(<<TrailingComma, BlankLine, HeaderBlues>>, <<"\n">>)
  /\ ColoursOf(parsedColors) = <<Red>>

(***************************************************************************)
(* The batch: load and completion (C26, C27).                              *)
(***************************************************************************)
\* The resolutions started and not yet settled, and the calls they await.
InFlight == {k \in DOMAIN tasks : tasks[k].pc \in {"validating", "generating"}}

\* C26: during one getMultipleColorsFromText invocation at most 5
\* resolutions, hence at most 5 service calls, are in flight, for every list
\* length and every settle order.
C26_AtMostFiveInFlight ==
  handler = "batch" =>
    /\ Cardinality(InFlight) <= batchSize
    /\ InFlight \subseteq BatchSlice(i, N)
    /\ calls.validation + calls.generation
         - Cardinality({k \in DOMAIN tasks : tasks[k].val # "none"})
         - Cardinality({k \in DOMAIN tasks : tasks[k].gen # "none"}) <= batchSize

C26_Witness ==
  /\ handler = "batch"
  /\ N > batchSize
  /\ Cardinality(InFlight) = batchSize
  /\ \E k \in InFlight : tasks[k].pc = "generating"
  /\ \E k \in InFlight : tasks[k].pc = "validating"

BatchReturned ==
  /\ pc = "done"
  /\ response = JsonResults(results)
  /\ Len(results) = N

\* C27: getMultipleColorsFromText never rejects and, every service call
\* settling, always returns its result list: a batch request with a
\* non-empty list is eventually answered with { results }, one result per
\* item, whatever items fail, and is never answered with an error.
C27_BatchCompletes ==
  /\ [](N > 0 => response.kind # "error")
  /\ (N > 0) ~> BatchReturned

C27_Witness ==
  /\ BatchReturned
  /\ N > batchSize
  /\ \A k \in 1..N : FailingItem(k)
  /\ \E k \in 1..N : tasks[k].gen = "thrown"
  /\ \E k \in 1..N : tasks[k].val = "verdictInvalid"

\* The describe form's batch request has been answered and its results are
\* shown.
ShownBatch == step = "page" /\ Flow = "multi" /\ multiResults # NullState

C29_LoadingEnds == (step = "page" /\ isLoading) ~> ~isLoading

\* A suggest submission has ended with the error of its request.
C29_Witness ==
  /\ step = "page"
  /\ pc = "off"
  /\ ~isLoading
  /\ Flow = "suggest"
  /\ error \notin {Null, SuggestBlank}

\* C30: the page never shows an error message together with a colour result:
\* whenever error is non-empty, singleResult and multiResults are both null.
C30_NoErrorWithResult ==
  (step = "page" /\ error # Null) =>
    (singleResult = NullState /\ multiResults = NullState)

============================================================================
